---- MODULE Spec2Model ----
(***************************************************************************)
(* Model of the graph-topology synthesizer of generate_working_graph.py:   *)
(* the TopologyGenerator store (nodes, edges), its socket queries, the     *)
(* connectivity check and repair, and the chain, tree, star, mesh and ring *)
(* builders.  Node placement (x, y) is computed by the builders only for   *)
(* display and never read back, so node records carry id, type and the two *)
(* capacities.  uuid4 identifiers are naturals that are fresh within a run *)
(* and depend on the entropy the operating system hands the process.  The  *)
(* command line (main) is modelled on the builder path: the builder call,  *)
(* then save_xml and the exit status of the process.                       *)
(***************************************************************************)
EXTENDS Integers, Sequences, FiniteSets, TLC

VARIABLES nodes, edges, pc, call, result, warnings, attempts, target_edges,
          urandom, exit_status, document

vars == <<nodes, edges, pc, call, result, warnings, attempts, target_edges,
          urandom, exit_status, document>>

(* ---- bounds of the exploration ---- *)

\* most nodes created through direct create_node calls
MaxNodes == 2

\* most nodes plus edges of a store that direct calls still add to
MaxStoreSize == 4

\* largest node count handed to the chain, star, ring and tree builders
MaxCount == 4

\* largest --stages value handed to the pipeline script
MaxStages == 2

\* (inputs, outputs) pairs handed to direct create_node calls
NodeShapes == {<<0, 0>>, <<0, 1>>, <<1, 0>>, <<1, 1>>, <<0, 2>>, <<2, 0>>}

\* type tags handed to direct create_node calls: one the type check accepts,
\* one it rejects
TypeTags == {"OUT", "SOURCE"}

\* node counts handed to the builders
NodeCounts == (-1)..MaxCount

\* node counts handed to the mesh builder
MeshNodeCounts == (-1)..3

\* --stages values handed to the pipeline script
StagesArgs == (-1)..MaxStages

\* --seed values handed to the command line: <<>> when the option is absent
SeedArgs == {<<>>, <<0>>, <<1>>}

\* --max-children values handed to the tree builder
MaxChildrenArgs == 0..3

\* --density values handed to the mesh builder, in tenths (0.0, 0.5, 0.7, 1.0)
DensityTenths == {0, 5, 7, 10}

(* ---- Python values ---- *)

\* Python's None where a socket index is expected
None == -1

Min(a, b) == IF a < b THEN a ELSE b

Max(a, b) == IF a > b THEN a ELSE b

\* range(n) of Python, shifted to the 1-based positions of a TLA+ sequence
RangeLen(n) == IF n > 0 THEN n ELSE 0

(* ---- the store: TopologyGenerator.nodes / .edges ---- *)

\* what os.urandom can hand a run: uuid4 draws from it, random.seed does not
\* reach it
OsEntropy == {0, 1}

\* a fresh TopologyGenerator in a process whose entropy is the given one
EmptyStore(entropy) == [nodes |-> <<>>, edges |-> <<>>, urandom |-> entropy]

\* str(uuid.uuid4()): a value no node or edge of the store carries yet, and
\* one that a run with other entropy does not draw
uuid4_NodeCount(S) == Cardinality(OsEntropy) * (Len(S.nodes) + 1) + S.urandom

uuid4(S) == Cardinality(OsEntropy) * (Len(S.nodes) + Len(S.edges) + 1) + S.urandom

\* the type check at the head of create_node
ValidNodeType(node_type) == node_type \in {"IN", "OUT"}

\* create_node past its type check: the store with the node appended
create_node_Prepends(S, node_type, inputs, outputs) ==
  [S EXCEPT !.nodes = <<[id |-> uuid4(S), type |-> node_type,
                         inputs |-> inputs, outputs |-> outputs]>> \o @]

create_node(S, node_type, inputs, outputs) ==
  [S EXCEPT !.nodes = Append(@, [id |-> uuid4(S), type |-> node_type,
                                 inputs |-> inputs, outputs |-> outputs])]

\* the node create_node has just appended
LastNode(S) == S.nodes[Len(S.nodes)]

\* the validation of from_socket_index at the head of create_edge
ValidFromSocket_NoOffset(from_node, from_socket_index) ==
  LET from_max == from_node.inputs + from_node.outputs - 1
  IN  ~(from_socket_index > from_max \/ from_socket_index < 0)

ValidFromSocket(from_node, from_socket_index) ==
  LET from_max == from_node.inputs + from_node.outputs - 1
  IN  ~(from_socket_index > from_max \/ from_socket_index < from_node.inputs)

\* the validation of to_socket_index in create_edge
ValidToSocket(to_node, to_socket_index) ==
  LET to_max == to_node.inputs - 1
  IN  ~(to_socket_index > to_max \/ to_socket_index < 0)

\* the duplicate scan of create_edge: some edge carries the same quadruple
IsDuplicate_NodeVsId(S, from_node, from_socket_index, to_node, to_socket_index) ==
  \E k \in 1..Len(S.edges) :
    /\ S.edges[k].id = from_node.id
    /\ S.edges[k].toNode = to_node.id
    /\ S.edges[k].fromSocketIndex = from_socket_index
    /\ S.edges[k].toSocketIndex = to_socket_index

IsDuplicate(S, from_node, from_socket_index, to_node, to_socket_index) ==
  \E k \in 1..Len(S.edges) :
    /\ S.edges[k].fromNode = from_node.id
    /\ S.edges[k].toNode = to_node.id
    /\ S.edges[k].fromSocketIndex = from_socket_index
    /\ S.edges[k].toSocketIndex = to_socket_index

\* the edge dict create_edge builds
NewEdge_RelativeIndex(S, from_node, from_socket_index, to_node, to_socket_index) ==
  [id |-> uuid4(S), fromNode |-> from_node.id, toNode |-> to_node.id,
   fromSocketIndex |-> from_socket_index - from_node.inputs,
   toSocketIndex |-> to_socket_index]

NewEdge(S, from_node, from_socket_index, to_node, to_socket_index) ==
  [id |-> uuid4(S), fromNode |-> from_node.id, toNode |-> to_node.id,
   fromSocketIndex |-> from_socket_index, toSocketIndex |-> to_socket_index]

\* create_edge: the store after the call and what the call did, "ValueError"
\* (raised), "None" (duplicate, skipped) or "Edge" (appended and returned)
create_edge(S, from_node, from_socket_index, to_node, to_socket_index) ==
  IF ~ValidFromSocket(from_node, from_socket_index)
    THEN [store |-> S, result |-> "ValueError"]
  ELSE IF ~ValidToSocket(to_node, to_socket_index)
    THEN [store |-> S, result |-> "ValueError"]
  ELSE IF IsDuplicate(S, from_node, from_socket_index, to_node, to_socket_index)
    THEN [store |-> S, result |-> "None"]
  ELSE [store |-> [S EXCEPT !.edges = Append(@,
                     NewEdge(S, from_node, from_socket_index, to_node, to_socket_index))],
        result |-> "Edge"]

\* the first index base + i, i in range(count) from position i on, not in used
RECURSIVE FirstUnused(_, _, _, _)
FirstUnused(base, count, i, used) ==
  IF i >= count THEN None
  ELSE IF base + i \notin used THEN base + i
  ELSE FirstUnused(base, count, i + 1, used)

get_available_output_socket_NoOffset(S, node) ==
  LET used_outputs == {S.edges[k].fromSocketIndex :
                         k \in {j \in 1..Len(S.edges) : S.edges[j].fromNode = node.id}}
  IN  FirstUnused(0, node.outputs, 0, used_outputs)

get_available_output_socket(S, node) ==
  LET used_outputs == {S.edges[k].fromSocketIndex :
                         k \in {j \in 1..Len(S.edges) : S.edges[j].fromNode = node.id}}
  IN  FirstUnused(node.inputs, node.outputs, 0, used_outputs)

get_available_input_socket_IgnoresEdges(S, node) ==
  FirstUnused(0, node.inputs, 0, {})

get_available_input_socket(S, node) ==
  LET used_inputs == {S.edges[k].toSocketIndex :
                        k \in {j \in 1..Len(S.edges) : S.edges[j].toNode = node.id}}
  IN  FirstUnused(0, node.inputs, 0, used_inputs)

(* ---- connectivity ---- *)

\* a set as a list, smallest element first
RECURSIVE SetToSeq(_)
SetToSeq(X) ==
  IF X = {} THEN <<>>
  ELSE LET m == CHOOSE x \in X : \A y \in X : x <= y
       IN  <<m>> \o SetToSeq(X \ {m})

\* adj[node_id] of is_connected: the neighbours over edges taken both ways
Adjacency_Directed(S, node_id) ==
  {S.edges[k].toNode : k \in {j \in 1..Len(S.edges) : S.edges[j].fromNode = node_id}}

Adjacency(S, node_id) ==
  {S.edges[k].toNode : k \in {j \in 1..Len(S.edges) : S.edges[j].fromNode = node_id}}
  \cup
  {S.edges[k].fromNode : k \in {j \in 1..Len(S.edges) : S.edges[j].toNode = node_id}}

\* the while loop of is_connected: the visited set when the queue runs empty
RECURSIVE BFSVisited(_, _, _)
BFSVisited(S, queue, visited) ==
  IF queue = <<>> THEN visited
  ELSE LET node_id == Head(queue)
           fresh == Adjacency(S, node_id) \ visited
       IN  BFSVisited(S, Tail(queue) \o SetToSeq(fresh), visited \cup fresh)

is_connected(S) ==
  IF Len(S.nodes) <= 1 THEN TRUE
  ELSE LET first == S.nodes[1].id
       IN  Cardinality(BFSVisited(S, <<first>>, {first})) = Len(S.nodes)

\* node_dict[nid] of ensure_connectivity
NodeById(S, nid) == S.nodes[CHOOSE k \in 1..Len(S.nodes) : S.nodes[k].id = nid]

\* the "Add neighbors" scan of ensure_connectivity over edges k, k+1, ...: the
\* ids it appends to the queue, in order
RECURSIVE NeighboursQueued(_, _, _, _)
NeighboursQueued(S, node_id, visited, k) ==
  IF k > Len(S.edges) THEN <<>>
  ELSE LET edge == S.edges[k]
           fwd == IF edge.fromNode = node_id /\ edge.toNode \notin visited
                    THEN <<edge.toNode>> ELSE <<>>
           bwd == IF edge.toNode = node_id /\ edge.fromNode \notin visited
                    THEN <<edge.fromNode>> ELSE <<>>
       IN  fwd \o bwd \o NeighboursQueued(S, node_id, visited, k + 1)

\* the inner while loop of the component search: visited and the component
\* list when the queue runs empty
RECURSIVE ComponentFrom(_, _, _, _)
ComponentFrom(S, queue, visited, component) ==
  IF queue = <<>> THEN [visited |-> visited, component |-> component]
  ELSE LET node_id == Head(queue)
       IN  IF node_id \in visited
             THEN ComponentFrom(S, Tail(queue), visited, component)
             ELSE ComponentFrom(S,
                    Tail(queue) \o NeighboursQueued(S, node_id, visited \cup {node_id}, 1),
                    visited \cup {node_id}, Append(component, node_id))

\* "for node in self.nodes" of the component search, from node i on
RECURSIVE FindComponents(_, _, _, _)
FindComponents(S, i, visited, components) ==
  IF i > Len(S.nodes) THEN components
  ELSE IF S.nodes[i].id \in visited THEN FindComponents(S, i + 1, visited, components)
  ELSE LET r == ComponentFrom(S, <<S.nodes[i].id>>, visited, <<>>)
       IN  FindComponents(S, i + 1, r.visited,
             IF r.component # <<>> THEN Append(components, r.component) ELSE components)

\* one (from_node, to_node) candidate of the repair: the two socket queries
\* and, when both answer, the create_edge under try/except
AttemptBridge_FlagEarly(S, from_node, to_node) ==
  LET from_socket == get_available_output_socket(S, from_node)
      to_socket == get_available_input_socket(S, to_node)
  IN  IF from_socket # None /\ to_socket # None
        THEN LET r == create_edge(S, from_node, from_socket, to_node, to_socket)
             IN  [store |-> r.store, connected |-> TRUE]
        ELSE [store |-> S, connected |-> TRUE]

AttemptBridge(S, from_node, to_node) ==
  LET from_socket == get_available_output_socket(S, from_node)
      to_socket == get_available_input_socket(S, to_node)
  IN  IF from_socket # None /\ to_socket # None
        THEN LET r == create_edge(S, from_node, from_socket, to_node, to_socket)
             IN  [store |-> r.store, connected |-> r.result # "ValueError"]
        ELSE [store |-> S, connected |-> FALSE]

\* "for to_node in comp2_nodes", from position b on
RECURSIVE BridgeTo(_, _, _, _)
BridgeTo(S, from_node, comp2, b) ==
  IF b > Len(comp2) THEN [store |-> S, connected |-> FALSE]
  ELSE LET to_node == NodeById(S, comp2[b])
       IN  IF to_node.inputs = 0 THEN BridgeTo(S, from_node, comp2, b + 1)
           ELSE LET r == AttemptBridge(S, from_node, to_node)
                IN  IF r.connected THEN r ELSE BridgeTo(r.store, from_node, comp2, b + 1)

\* "for from_node in comp1_nodes", from position a on
RECURSIVE BridgeFrom(_, _, _, _)
BridgeFrom(S, comp1, comp2, a) ==
  IF a > Len(comp1) THEN [store |-> S, connected |-> FALSE]
  ELSE LET from_node == NodeById(S, comp1[a])
       IN  IF from_node.outputs = 0 THEN BridgeFrom(S, comp1, comp2, a + 1)
           ELSE LET r == BridgeTo(S, from_node, comp2, 1)
                IN  IF r.connected THEN r ELSE BridgeFrom(r.store, comp1, comp2, a + 1)

\* "for i in range(len(components) - 1)", from pair i on (1-based); warned
\* lists the pairs the code printed a warning for
RECURSIVE ConnectComponents(_, _, _, _)
ConnectComponents(S, components, i, warned) ==
  IF i > Len(components) - 1 THEN [store |-> S, warnings |-> warned]
  ELSE LET r == BridgeFrom(S, components[i], components[i + 1], 1)
       IN  ConnectComponents(r.store, components, i + 1,
             IF r.connected THEN warned
             ELSE Append(warned, [msg |-> "Could not connect component", at |-> i - 1]))

\* ensure_connectivity: the store it leaves and the warnings it printed
ensure_connectivity_NoGuard(S) ==
  ConnectComponents(S,
    [i \in 1..Len(S.nodes) |-> ComponentFrom(S, <<S.nodes[i].id>>, {}, <<>>).component],
    1, <<>>)

ensure_connectivity(S) ==
  IF is_connected(S) THEN [store |-> S, warnings |-> <<>>]
  ELSE ConnectComponents(S, FindComponents(S, 1, {}, <<>>), 1, <<>>)

(* ---- builders: each returns the store it leaves and whether it raised ---- *)

\* the node-creating loop of generate_chain_topology, from i on
RECURSIVE ChainNodes_LastIsMiddle(_, _, _)
ChainNodes_LastIsMiddle(S, node_count, i) ==
  IF i >= node_count THEN S
  ELSE ChainNodes_LastIsMiddle(
         IF i = 0 THEN create_node(S, "OUT", 0, 1)
         ELSE IF i = node_count THEN create_node(S, "IN", 1, 0)
         ELSE create_node(S, "OUT", 1, 1),
         node_count, i + 1)

RECURSIVE ChainNodes(_, _, _)
ChainNodes(S, node_count, i) ==
  IF i >= node_count THEN S
  ELSE ChainNodes(
         IF i = 0 THEN create_node(S, "OUT", 0, 1)
         ELSE IF i = node_count - 1 THEN create_node(S, "IN", 1, 0)
         ELSE create_node(S, "OUT", 1, 1),
         node_count, i + 1)

\* the "Connect in chain" loop, from i on
RECURSIVE ChainEdges(_, _, _)
ChainEdges(S, node_count, i) ==
  IF i >= node_count - 1 THEN [store |-> S, raised |-> FALSE]
  ELSE LET from_node == S.nodes[i + 1]
           to_node == S.nodes[i + 2]
           r == create_edge(S, from_node, from_node.inputs + 0, to_node, 0)
       IN  IF r.result = "ValueError" THEN [store |-> S, raised |-> TRUE]
           ELSE ChainEdges(r.store, node_count, i + 1)

generate_chain_topology(S, node_count) ==
  ChainEdges(ChainNodes(S, node_count, 0), node_count, 0)

\* create_node of NodeGraphGenerator (generate_graph.py): no type check
NodeGraphGenerator_create_node(S, node_type, inputs, outputs) ==
  [S EXCEPT !.nodes = Append(@, [id |-> uuid4(S), type |-> node_type,
                                 inputs |-> inputs, outputs |-> outputs])]

\* create_edge of NodeGraphGenerator: appends whatever it is handed
NodeGraphGenerator_create_edge(S, from_node, from_socket_index, to_node, to_socket_index) ==
  [S EXCEPT !.edges = Append(@,
     [id |-> uuid4(S), fromNode |-> from_node.id, toNode |-> to_node.id,
      fromSocketIndex |-> from_socket_index, toSocketIndex |-> to_socket_index])]

\* generate_simple_chain of NodeGraphGenerator: the fixed three-node chain
generate_simple_chain(S) ==
  LET S1 == NodeGraphGenerator_create_node(S, "OUT", 0, 1)
      out_node == LastNode(S1)
      S2 == NodeGraphGenerator_create_node(S1, "OUT", 1, 1)
      middle_node == LastNode(S2)
      S3 == NodeGraphGenerator_create_node(S2, "IN", 1, 0)
      in_node == LastNode(S3)
      S4 == NodeGraphGenerator_create_edge(S3, out_node, 0, middle_node, 0)
  IN  NodeGraphGenerator_create_edge(S4, middle_node, 1, in_node, 0)

\* the hub socket the star builder wires spoke i to
hub_output_First(hub, i) == hub.inputs

hub_output(hub, i) == hub.inputs + i

\* the spoke loop of generate_star_topology, from i on
RECURSIVE StarSpokes(_, _, _, _)
StarSpokes(S, hub, node_count, i) ==
  IF i >= node_count - 1 THEN [store |-> S, raised |-> FALSE]
  ELSE LET S1 == create_node(S, "IN", 1, 0)
           spoke == LastNode(S1)
           r == create_edge(S1, hub, hub_output(hub, i), spoke, 0)
       IN  IF r.result = "ValueError" THEN [store |-> S1, raised |-> TRUE]
           ELSE StarSpokes(r.store, hub, node_count, i + 1)

generate_star_topology_HubTooWide(S, node_count) ==
  IF node_count < 2 THEN [store |-> S, raised |-> FALSE]
  ELSE LET S1 == create_node(S, "OUT", 0, node_count)
       IN  StarSpokes(S1, LastNode(S1), node_count, 0)

generate_star_topology(S, node_count) ==
  IF node_count < 2 THEN [store |-> S, raised |-> FALSE]
  ELSE LET S1 == create_node(S, "OUT", 0, node_count - 1)
       IN  StarSpokes(S1, LastNode(S1), node_count, 0)

\* the node-creating loop of generate_ring_topology, from i on
RECURSIVE RingNodes(_, _, _)
RingNodes(S, node_count, i) ==
  IF i >= node_count THEN S
  ELSE RingNodes(create_node(S, "OUT", 1, 1), node_count, i + 1)

\* the "Connect in ring" loop, from i on
RECURSIVE RingEdges_NoClosing(_, _, _)
RingEdges_NoClosing(S, node_count, i) ==
  IF i >= node_count - 1 THEN [store |-> S, raised |-> FALSE]
  ELSE LET from_node == S.nodes[i + 1]
           to_node == S.nodes[((i + 1) % node_count) + 1]
           r == create_edge(S, from_node, from_node.inputs + 0, to_node, 0)
       IN  IF r.result = "ValueError" THEN [store |-> S, raised |-> TRUE]
           ELSE RingEdges_NoClosing(r.store, node_count, i + 1)

RECURSIVE RingEdges(_, _, _)
RingEdges(S, node_count, i) ==
  IF i >= node_count THEN [store |-> S, raised |-> FALSE]
  ELSE LET from_node == S.nodes[i + 1]
           to_node == S.nodes[((i + 1) % node_count) + 1]
           r == create_edge(S, from_node, from_node.inputs + 0, to_node, 0)
       IN  IF r.result = "ValueError" THEN [store |-> S, raised |-> TRUE]
           ELSE RingEdges(r.store, node_count, i + 1)

generate_ring_topology(S, node_count) ==
  RingEdges(RingNodes(S, node_count, 0), node_count, 0)

\* the "for i in range(children_count)" loop of generate_tree_topology for one
\* parent, from i on.  T carries the store, the queue of parents, nodes_created
\* and the lines printed; leaf[k] is the outcome of random.random() < 0.3 drawn
\* while nodes_created = k
RECURSIVE TreeChildren_FirstOutput(_, _, _, _, _, _, _)
TreeChildren_FirstOutput(T, parent, children_count, i, node_count, max_children, leaf) ==
  IF i >= children_count \/ T.nodes_created >= node_count THEN T
  ELSE LET remaining == node_count - T.nodes_created
           isLeaf == remaining = 1 \/ leaf[T.nodes_created]
           S1 == IF isLeaf THEN create_node(T.store, "IN", 1, 0)
                 ELSE create_node(T.store, "OUT", 1, Min(max_children, remaining - 1))
           child == LastNode(S1)
           r == create_edge(S1, parent, parent.inputs, child, 0)
       IN  TreeChildren_FirstOutput(
             [store |-> r.store,
              queue |-> IF isLeaf THEN T.queue ELSE Append(T.queue, child),
              nodes_created |-> T.nodes_created + 1,
              printed |-> IF r.result = "ValueError"
                            THEN Append(T.printed, [msg |-> "Tree connection error",
                                                    at |-> T.nodes_created])
                            ELSE T.printed],
             parent, children_count, i + 1, node_count, max_children, leaf)

RECURSIVE TreeChildren_ChildTooNarrow(_, _, _, _, _, _, _)
TreeChildren_ChildTooNarrow(T, parent, children_count, i, node_count, max_children, leaf) ==
  IF i >= children_count \/ T.nodes_created >= node_count THEN T
  ELSE LET remaining == node_count - T.nodes_created
           isLeaf == remaining = 1 \/ leaf[T.nodes_created]
           S1 == IF isLeaf THEN create_node(T.store, "IN", 1, 0)
                 ELSE create_node(T.store, "OUT", 1, Min(max_children, remaining - 2))
           child == LastNode(S1)
           r == create_edge(S1, parent, parent.inputs + i, child, 0)
       IN  TreeChildren_ChildTooNarrow(
             [store |-> r.store,
              queue |-> IF isLeaf THEN T.queue ELSE Append(T.queue, child),
              nodes_created |-> T.nodes_created + 1,
              printed |-> IF r.result = "ValueError"
                            THEN Append(T.printed, [msg |-> "Tree connection error",
                                                    at |-> T.nodes_created])
                            ELSE T.printed],
             parent, children_count, i + 1, node_count, max_children, leaf)

RECURSIVE TreeChildren(_, _, _, _, _, _, _)
TreeChildren(T, parent, children_count, i, node_count, max_children, leaf) ==
  IF i >= children_count \/ T.nodes_created >= node_count THEN T
  ELSE LET remaining == node_count - T.nodes_created
           isLeaf == remaining = 1 \/ leaf[T.nodes_created]
           S1 == IF isLeaf THEN create_node(T.store, "IN", 1, 0)
                 ELSE create_node(T.store, "OUT", 1, Min(max_children, remaining - 1))
           child == LastNode(S1)
           r == create_edge(S1, parent, parent.inputs + i, child, 0)
       IN  TreeChildren(
             [store |-> r.store,
              queue |-> IF isLeaf THEN T.queue ELSE Append(T.queue, child),
              nodes_created |-> T.nodes_created + 1,
              printed |-> IF r.result = "ValueError"
                            THEN Append(T.printed, [msg |-> "Tree connection error",
                                                    at |-> T.nodes_created])
                            ELSE T.printed],
             parent, children_count, i + 1, node_count, max_children, leaf)

\* the "while queue and nodes_created < node_count" loop
RECURSIVE TreeLoop(_, _, _, _)
TreeLoop(T, node_count, max_children, leaf) ==
  IF T.queue = <<>> \/ T.nodes_created >= node_count THEN T
  ELSE LET parent == Head(T.queue)
           children_count == Min(max_children, node_count - T.nodes_created)
       IN  TreeLoop(TreeChildren([T EXCEPT !.queue = Tail(@)], parent, children_count, 0,
                                 node_count, max_children, leaf),
                    node_count, max_children, leaf)

generate_tree_topology(S, node_count, max_children, leaf) ==
  IF node_count = 0 THEN [store |-> S, queue |-> <<>>, nodes_created |-> 0, printed |-> <<>>]
  ELSE LET S1 == create_node(S, "OUT", 0, max_children)
       IN  TreeLoop([store |-> S1, queue |-> <<LastNode(S1)>>, nodes_created |-> 1,
                     printed |-> <<>>],
                    node_count, max_children, leaf)

\* int(node_count * density), density in tenths, node_count >= 0
ScaleByDensity(n, density) == (n * density) \div 10

\* max_connections of generate_mesh_topology
max_connections(node_count, density) == Max(2, ScaleByDensity(node_count, density))

\* target_edges of generate_mesh_topology
TargetEdges(node_count, density) ==
  ScaleByDensity((node_count * (node_count - 1)) \div 2, density)

\* the positions 0 < i < node_count - 1 whose capacities the mesh builder draws
MeshMiddle(node_count) == 1..(node_count - 2)

\* the node-creating loop of generate_mesh_topology, from i on; caps[i] is the
\* pair of random.randint draws (inputs, outputs) for middle node i
RECURSIVE MeshNodes(_, _, _, _, _)
MeshNodes(S, node_count, maxc, caps, i) ==
  IF i >= node_count THEN S
  ELSE MeshNodes(
         IF i = 0 THEN create_node(S, "OUT", 0, maxc)
         ELSE IF i = node_count - 1 THEN create_node(S, "IN", maxc, 0)
         ELSE create_node(S, "OUT", caps[i][1], caps[i][2]),
         node_count, maxc, caps, i + 1)

\* one iteration of the wiring loop of generate_mesh_topology after the two
\* random.choice draws: the store it leaves (attempts is counted by the caller)
MeshWire_FirstSockets(S, from_node, to_node) ==
  IF from_node = to_node \/ from_node.outputs = 0 \/ to_node.inputs = 0 THEN S
  ELSE create_edge(S, from_node, from_node.inputs, to_node, 0).store

MeshWire(S, from_node, to_node) ==
  IF from_node = to_node \/ from_node.outputs = 0 \/ to_node.inputs = 0 THEN S
  ELSE LET from_socket == get_available_output_socket(S, from_node)
           to_socket == get_available_input_socket(S, to_node)
       IN  IF from_socket # None /\ to_socket # None
             THEN create_edge(S, from_node, from_socket, to_node, to_socket).store
             ELSE S

(* ---- scripts/generate_graph.py: the pipeline and split-merge patterns ---- *)

\* nodes.append(Node(_new_id(), ...)): the dataclass lists as a store
AppendNode(S, node_type, inputs, outputs) ==
  [S EXCEPT !.nodes = Append(@, [id |-> uuid4(S), type |-> node_type,
                                 inputs |-> inputs, outputs |-> outputs])]

\* edges.append(Edge(_new_id(), from_node, to_node, from_socket, to_socket))
AppendEdge(S, from_node, to_node, from_socket, to_socket) ==
  [S EXCEPT !.edges = Append(@,
     [id |-> uuid4(S), fromNode |-> from_node.id, toNode |-> to_node.id,
      fromSocketIndex |-> from_socket, toSocketIndex |-> to_socket])]

\* the stage loop of build_pipeline, `left` iterations to go
RECURSIVE PipelineStages_PrevStale(_, _, _)
PipelineStages_PrevStale(S, prev, left) ==
  IF left <= 0 THEN [store |-> S, prev |-> prev]
  ELSE LET S1 == AppendNode(S, "TRANSFORM", 1, 1)
           stage == LastNode(S1)
       IN  PipelineStages_PrevStale(AppendEdge(S1, prev, stage, 0, 0), prev, left - 1)

RECURSIVE PipelineStages(_, _, _)
PipelineStages(S, prev, left) ==
  IF left <= 0 THEN [store |-> S, prev |-> prev]
  ELSE LET S1 == AppendNode(S, "TRANSFORM", 1, 1)
           stage == LastNode(S1)
       IN  PipelineStages(AppendEdge(S1, prev, stage, 0, 0), stage, left - 1)

\* build_pipeline: the lists it returns, or that it raised
build_pipeline(S, stages) ==
  IF stages < 0 THEN [store |-> S, raised |-> TRUE]
  ELSE LET S1 == AppendNode(S, "SOURCE", 0, 1)
           r == PipelineStages(S1, LastNode(S1), stages)
           S2 == AppendNode(r.store, "SINK", 1, 0)
       IN  [store |-> AppendEdge(S2, r.prev, LastNode(S2), 0, 0), raised |-> FALSE]

\* build_split_merge: the lists it returns
build_split_merge(S) ==
  LET S1 == AppendNode(S, "SOURCE", 0, 1)
      S2 == AppendNode(S1, "SPLIT", 1, 2)
      S3 == AppendNode(S2, "TRANSFORM", 1, 1)
      S4 == AppendNode(S3, "TRANSFORM", 1, 1)
      S5 == AppendNode(S4, "MERGE", 2, 1)
      S6 == AppendNode(S5, "SINK", 1, 0)
      source == S6.nodes[1]
      split == S6.nodes[2]
      upper == S6.nodes[3]
      lower == S6.nodes[4]
      merge == S6.nodes[5]
      sink == S6.nodes[6]
      E1 == AppendEdge(S6, source, split, 0, 0)
      E2 == AppendEdge(E1, split, upper, 1, 0)
      E3 == AppendEdge(E2, split, lower, 2, 0)
      E4 == AppendEdge(E3, upper, merge, 0, 0)
      E5 == AppendEdge(E4, lower, merge, 0, 1)
  IN  AppendEdge(E5, merge, sink, 0, 0)

(* ---- main: the random stream ---- *)

\* "if args.seed:" of main: whether random.seed(args.seed) is called
random_seeded(seed) == seed # <<>> /\ seed[1] # 0

\* the outcomes of random.random() < 0.3 that the tree builder draws from a
\* stream seeded with s, one per value of nodes_created.  The generator of
\* the random module is stood in for by a fixed function of the seed: what
\* the seed decides is decided here too.
SeededLeafDraws(s, node_count) ==
  [k \in 1..(node_count - 1) |-> ((7 * s + 3 * k) % 10) < 3]

\* the leaf draws a tree run can meet: the ones its seed fixes when main
\* seeded the stream, any at all when the stream still is as the operating
\* system's entropy left it
TreeLeafDraws(seed, node_count) ==
  IF random_seeded(seed) THEN {SeededLeafDraws(seed[1], node_count)}
  ELSE [1..(node_count - 1) -> BOOLEAN]

(* ---- serialization ---- *)

\* str() of an int: its decimal digits
str(n) == ToString(n)

\* the <node> element of to_xml
NodeElement_InputsTwice(node) ==
  [tag |-> "node",
   attrib |-> [id |-> node.id, type |-> node.type,
               inputs |-> str(node.inputs), outputs |-> str(node.inputs)]]

NodeElement(node) ==
  [tag |-> "node",
   attrib |-> [id |-> node.id, type |-> node.type,
               inputs |-> str(node.inputs), outputs |-> str(node.outputs)]]

\* the <edge> element of to_xml
EdgeElement(edge) ==
  [tag |-> "edge",
   attrib |-> [id |-> edge.id, fromNode |-> edge.fromNode, toNode |-> edge.toNode,
               fromSocketIndex |-> str(edge.fromSocketIndex),
               toSocketIndex |-> str(edge.toSocketIndex)]]

\* to_xml: the <graph> root, its children being the node elements and after
\* them the edge elements, each in store order
to_xml(S) ==
  [tag |-> "graph",
   attrib |-> [version |-> "1.0", xmlns |-> "http://nodegraph.org/schema"],
   children |-> [i \in 1..Len(S.nodes) |-> NodeElement(S.nodes[i])]
                \o [i \in 1..Len(S.edges) |-> EdgeElement(S.edges[i])]]

\* write_graph of scripts/generate_graph.py: the same elements under a root
\* that carries the version only
write_graph(S) ==
  [tag |-> "graph",
   attrib |-> [version |-> "1.0"],
   children |-> [i \in 1..Len(S.nodes) |-> NodeElement(S.nodes[i])]
                \o [i \in 1..Len(S.edges) |-> EdgeElement(S.edges[i])]]

(* ---- the state machine ---- *)

\* the generator object as the operators above take it
Store == [nodes |-> nodes, edges |-> edges, urandom |-> urandom]

BuilderOps == {"generate_chain_topology", "generate_tree_topology",
               "generate_star_topology", "generate_mesh_topology",
               "generate_ring_topology"}

\* TopologyGenerator.__init__
Init ==
  /\ nodes = <<>>
  /\ edges = <<>>
  /\ pc = "idle"
  /\ call = [op |-> "__init__"]
  /\ result = "none"
  /\ warnings = <<>>
  /\ attempts = 0
  /\ target_edges = 0
  /\ urandom \in OsEntropy
  /\ exit_status = <<>>
  /\ document = <<>>

\* a direct call of create_node
CreateNode(node_type, inputs, outputs) ==
  /\ pc \in {"idle", "store"}
  /\ Len(nodes) < MaxNodes
  /\ Len(nodes) + Len(edges) < MaxStoreSize
  /\ pc' = "store"
  /\ call' = [op |-> "create_node", type |-> node_type,
              inputs |-> inputs, outputs |-> outputs]
  /\ IF ValidNodeType(node_type)
       THEN /\ nodes' = create_node(Store, node_type, inputs, outputs).nodes
            /\ result' = "Node"
       ELSE /\ nodes' = nodes
            /\ result' = "ValueError"
  /\ warnings' = <<>>
  /\ UNCHANGED <<edges, attempts, target_edges, urandom, exit_status, document>>

\* the from_socket_index values a direct create_edge call is tried with: the
\* output indices of the node, the index below them and the index above them
FromSocketArgs(node) == (node.inputs - 1)..(node.inputs + node.outputs)

\* the to_socket_index values a direct create_edge call is tried with: the
\* input indices of the node, the index below them and the index above them
ToSocketArgs(node) == (-1)..node.inputs

\* a direct call of create_edge on nodes f and t of the store
CreateEdge(f, from_socket_index, t, to_socket_index) ==
  /\ pc = "store"
  /\ Len(nodes) + Len(edges) < MaxStoreSize
  /\ LET r == create_edge(Store, nodes[f], from_socket_index, nodes[t], to_socket_index)
     IN  /\ edges' = r.store.edges
         /\ result' = r.result
  /\ call' = [op |-> "create_edge", from |-> f, fromSocket |-> from_socket_index,
              to |-> t, toSocket |-> to_socket_index]
  /\ warnings' = <<>>
  /\ UNCHANGED <<nodes, pc, attempts, target_edges, urandom, exit_status, document>>

\* a direct call of ensure_connectivity
EnsureConnectivity ==
  /\ pc = "store"
  /\ LET r == ensure_connectivity(Store)
     IN  /\ nodes' = r.store.nodes
         /\ edges' = r.store.edges
         /\ warnings' = r.warnings
  /\ call' = [op |-> "ensure_connectivity"]
  /\ result' = "returned"
  /\ UNCHANGED <<pc, attempts, target_edges, urandom, exit_status, document>>

\* what a builder that ran to its end or raised leaves behind
Finish(r, raised, printed) ==
  /\ nodes' = r.nodes
  /\ edges' = r.edges
  /\ pc' = IF raised THEN "failed" ELSE "done"
  /\ result' = IF raised THEN "ValueError" ELSE "returned"
  /\ warnings' = printed
  /\ UNCHANGED <<attempts, target_edges, urandom, exit_status, document>>

GenerateChain(node_count, seed) ==
  /\ pc = "idle"
  /\ call' = [op |-> "generate_chain_topology", node_count |-> node_count,
              seed |-> seed]
  /\ LET r == generate_chain_topology(Store, node_count)
     IN  Finish(r.store, r.raised, <<>>)

\* generate_simple_chain run on a fresh NodeGraphGenerator
GenerateSimpleChain ==
  /\ pc = "idle"
  /\ call' = [op |-> "generate_simple_chain"]
  /\ LET r == generate_simple_chain(Store)
     IN  /\ nodes' = r.nodes
         /\ edges' = r.edges
  /\ pc' = "returned"
  /\ result' = "returned"
  /\ warnings' = <<>>
  /\ UNCHANGED <<attempts, target_edges, urandom, exit_status, document>>

GenerateStar(node_count, seed) ==
  /\ pc = "idle"
  /\ call' = [op |-> "generate_star_topology", node_count |-> node_count,
              seed |-> seed]
  /\ LET r == generate_star_topology(Store, node_count)
     IN  Finish(r.store, r.raised, <<>>)

GenerateRing(node_count, seed) ==
  /\ pc = "idle"
  /\ call' = [op |-> "generate_ring_topology", node_count |-> node_count,
              seed |-> seed]
  /\ LET r == generate_ring_topology(Store, node_count)
     IN  Finish(r.store, r.raised, <<>>)

GenerateTree(node_count, max_children, leaf, seed) ==
  /\ pc = "idle"
  /\ leaf \in TreeLeafDraws(seed, node_count)
  /\ call' = [op |-> "generate_tree_topology", node_count |-> node_count,
              max_children |-> max_children, seed |-> seed]
  /\ LET r == generate_tree_topology(Store, node_count, max_children, leaf)
     IN  Finish(r.store, FALSE, r.printed)

\* generate_mesh_topology up to the wiring loop; math.sqrt raises on a
\* negative node_count before any node is created
MeshBegin(node_count, density, caps) ==
  /\ pc = "idle"
  /\ call' = [op |-> "generate_mesh_topology", node_count |-> node_count,
              density |-> density]
  /\ warnings' = <<>>
  /\ attempts' = 0
  /\ UNCHANGED <<urandom, exit_status, document>>
  /\ IF node_count < 0
       THEN /\ pc' = "failed"
            /\ result' = "ValueError"
            /\ UNCHANGED <<nodes, edges, target_edges>>
       ELSE /\ pc' = "mesh_wiring"
            /\ result' = "none"
            /\ nodes' = MeshNodes(Store, node_count,
                                  max_connections(node_count, density), caps, 0).nodes
            /\ target_edges' = TargetEdges(node_count, density)
            /\ UNCHANGED edges

\* the condition of the wiring loop
MeshLoopCondition_NoAttemptBound == Len(edges) < target_edges

MeshLoopCondition == Len(edges) < target_edges /\ attempts < target_edges * 10

\* one iteration of the wiring loop, nodes f and t being the random.choice draws
MeshAttempt(f, t) ==
  /\ pc = "mesh_wiring"
  /\ MeshLoopCondition
  /\ edges' = MeshWire(Store, nodes[f], nodes[t]).edges
  /\ attempts' = attempts + 1
  /\ UNCHANGED <<nodes, pc, call, result, warnings, target_edges, urandom, exit_status, document>>

\* the loop is over: the repair pass, and the builder returns
MeshRepair ==
  /\ pc = "mesh_wiring"
  /\ ~MeshLoopCondition
  /\ LET r == ensure_connectivity(Store)
     IN  /\ nodes' = r.store.nodes
         /\ edges' = r.store.edges
         /\ warnings' = r.warnings
  /\ pc' = "done"
  /\ result' = "returned"
  /\ UNCHANGED <<call, attempts, target_edges, urandom, exit_status, document>>

\* main after a builder returned: save_xml writes the document, main returns
\* and the process ends with status 0
MainSave ==
  /\ pc = "done"
  /\ exit_status = <<>>
  /\ document' = <<to_xml(Store)>>
  /\ exit_status' = <<0>>
  /\ UNCHANGED <<nodes, edges, pc, call, result, warnings, attempts,
                 target_edges, urandom>>

\* main after a builder raised: nothing catches the exception, the process
\* ends with status 1 and save_xml is never reached
MainUncaught ==
  /\ pc = "failed"
  /\ exit_status = <<>>
  /\ exit_status' = <<1>>
  /\ UNCHANGED <<nodes, edges, pc, call, result, warnings, attempts,
                 target_edges, urandom, document>>

\* main of scripts/generate_graph.py with --pattern pipeline, up to the
\* return of build_pipeline
BuildPipeline(stages) ==
  /\ pc = "idle"
  /\ call' = [op |-> "build_pipeline", stages |-> stages]
  /\ LET r == build_pipeline(Store, stages)
     IN  /\ nodes' = r.store.nodes
         /\ edges' = r.store.edges
         /\ pc' = IF r.raised THEN "failed" ELSE "built"
         /\ result' = IF r.raised THEN "ValueError" ELSE "returned"
  /\ warnings' = <<>>
  /\ UNCHANGED <<attempts, target_edges, urandom, exit_status, document>>

\* main of scripts/generate_graph.py with --pattern split-merge, up to the
\* return of build_split_merge
BuildSplitMerge ==
  /\ pc = "idle"
  /\ call' = [op |-> "build_split_merge"]
  /\ LET r == build_split_merge(Store)
     IN  /\ nodes' = r.nodes
         /\ edges' = r.edges
  /\ pc' = "built"
  /\ result' = "returned"
  /\ warnings' = <<>>
  /\ UNCHANGED <<attempts, target_edges, urandom, exit_status, document>>

\* main of scripts/generate_graph.py after the pattern is built: write_graph,
\* then return 0
WriteGraph ==
  /\ pc = "built"
  /\ exit_status = <<>>
  /\ document' = <<write_graph(Store)>>
  /\ exit_status' = <<0>>
  /\ UNCHANGED <<nodes, edges, pc, call, result, warnings, attempts,
                 target_edges, urandom>>

Next ==
  \/ \E node_type \in TypeTags, shape \in NodeShapes :
       CreateNode(node_type, shape[1], shape[2])
  \/ \E f \in 1..Len(nodes), t \in 1..Len(nodes) :
       \E fs \in FromSocketArgs(nodes[f]), ts \in ToSocketArgs(nodes[t]) :
         CreateEdge(f, fs, t, ts)
  \/ EnsureConnectivity
  \/ \E node_count \in NodeCounts, seed \in SeedArgs : GenerateChain(node_count, seed)
  \/ GenerateSimpleChain
  \/ \E node_count \in NodeCounts, seed \in SeedArgs : GenerateStar(node_count, seed)
  \/ \E node_count \in NodeCounts, seed \in SeedArgs : GenerateRing(node_count, seed)
  \/ \E node_count \in NodeCounts, max_children \in MaxChildrenArgs, seed \in SeedArgs :
       \E leaf \in TreeLeafDraws(seed, node_count) :
         GenerateTree(node_count, max_children, leaf, seed)
  \/ \E node_count \in MeshNodeCounts, density \in DensityTenths :
       \E caps \in [MeshMiddle(node_count) ->
                      (1..Min(3, max_connections(node_count, density)))
                      \X (1..Min(3, max_connections(node_count, density)))] :
         MeshBegin(node_count, density, caps)
  \/ \E f \in 1..Len(nodes), t \in 1..Len(nodes) : MeshAttempt(f, t)
  \/ MeshRepair
  \/ MainSave
  \/ MainUncaught
  \/ \E stages \in StagesArgs : BuildPipeline(stages)
  \/ BuildSplitMerge
  \/ WriteGraph

Spec == Init /\ [][Next]_vars

\* the next iteration of the wiring loop of a running mesh builder, whatever
\* its two random.choice draws
MeshIteration == \E f \in 1..Len(nodes), t \in 1..Len(nodes) : MeshAttempt(f, t)

\* a run of the mesh command line
MeshNext ==
  \/ \E node_count \in MeshNodeCounts, density \in DensityTenths :
       \E caps \in [MeshMiddle(node_count) ->
                      (1..Min(3, max_connections(node_count, density)))
                      \X (1..Min(3, max_connections(node_count, density)))] :
         MeshBegin(node_count, density, caps)
  \/ MeshIteration
  \/ MeshRepair
  \/ MainSave
  \/ MainUncaught

\* the mesh command line under an interpreter that keeps running the wiring
\* loop while the loop condition holds
MeshFairSpec == Init /\ [][MeshNext]_vars /\ WF_vars(MeshIteration)

(* ---- properties ---- *)

\* the Socket Model: idx is an output socket of node
IsOutputSocket(node, idx) == node.inputs <= idx /\ idx < node.inputs + node.outputs

\* the Socket Model: idx is an input socket of node
IsInputSocket(node, idx) == 0 <= idx /\ idx < node.inputs

\* the node of the current store with this id
NodeOf(nid) == NodeById(Store, nid)

\* both ends of every edge are sockets of the right class
SocketIndicesValid ==
  \A k \in 1..Len(edges) :
    /\ IsOutputSocket(NodeOf(edges[k].fromNode), edges[k].fromSocketIndex)
    /\ IsInputSocket(NodeOf(edges[k].toNode), edges[k].toSocketIndex)

\* no socket is the source of two edges or the destination of two edges
SocketsUsedOnce ==
  \A j \in 1..Len(edges), k \in 1..Len(edges) :
    j # k =>
      /\ ~(edges[j].fromNode = edges[k].fromNode
           /\ edges[j].fromSocketIndex = edges[k].fromSocketIndex)
      /\ ~(edges[j].toNode = edges[k].toNode
           /\ edges[j].toSocketIndex = edges[k].toSocketIndex)

\* C1: in every graph a builder (chain, tree, star, mesh, ring) produces, each
\* edge leaves an output socket of its source node and enters an input socket
\* of its destination node.
C1_BuilderSocketIndicesValid == call.op \in BuilderOps => SocketIndicesValid

\* C1 witness: a finished tree in which an inner node (one input) feeds a
\* child from its output socket at index 1
C1_Witness ==
  /\ pc = "done"
  /\ call.op = "generate_tree_topology"
  /\ \E k \in 1..Len(edges) :
       /\ NodeOf(edges[k].fromNode).inputs = 1
       /\ edges[k].fromSocketIndex = 1

\* C2: after any sequence of create_node / create_edge calls every socket is
\* the source of at most one edge and the destination of at most one edge.
C2_StoreSocketsUsedOnce ==
  call.op \in {"create_node", "create_edge"} => SocketsUsedOnce

\* C3: create_edge with from_node = to_node is rejected (raises) and leaves the
\* edge list unchanged, whatever the socket indices.
C3_SelfLoopRejected ==
  [][(call'.op = "create_edge" /\ call'.from = call'.to)
       => (result' = "ValueError" /\ edges' = edges)]_vars

\* C4: no graph a builder produces, for any node count, has an edge from a
\* node to itself.
C4_BuildersNoSelfLoop ==
  call.op \in BuilderOps =>
    \A k \in 1..Len(edges) : edges[k].fromNode # edges[k].toNode

\* C5: create_edge with a from_socket_index that is no output socket of
\* from_node, or a to_socket_index that is no input socket of to_node, raises
\* and leaves nodes and edges as they were.
C5_InvalidSocketRejected ==
  [][(/\ call'.op = "create_edge"
      /\ \/ ~IsOutputSocket(nodes[call'.from], call'.fromSocket)
         \/ ~IsInputSocket(nodes[call'.to], call'.toSocket))
       => (result' = "ValueError" /\ nodes' = nodes /\ edges' = edges)]_vars

\* C5 witness: a call with an in-range index of the wrong class (an input
\* index given as from_socket_index) was rejected on a store that has an edge
C5_Witness ==
  /\ call.op = "create_edge"
  /\ result = "ValueError"
  /\ edges # <<>>
  /\ call.fromSocket >= 0
  /\ call.fromSocket < nodes[call.from].inputs
  /\ IsInputSocket(nodes[call.to], call.toSocket)

\* the quadruple is carried by an edge of the list
QuadruplePresent(es, from_id, from_socket, to_id, to_socket) ==
  \E k \in 1..Len(es) :
    /\ es[k].fromNode = from_id
    /\ es[k].fromSocketIndex = from_socket
    /\ es[k].toNode = to_id
    /\ es[k].toSocketIndex = to_socket

\* C6: create_edge with a quadruple already in the edge list returns None, does
\* not raise and leaves the edge list as it was; the edge list never holds two
\* edges with the same quadruple.
C6_DuplicateIsNoOp ==
  /\ [](\A j \in 1..Len(edges), k \in 1..Len(edges) :
          j # k => ~(/\ edges[j].fromNode = edges[k].fromNode
                     /\ edges[j].fromSocketIndex = edges[k].fromSocketIndex
                     /\ edges[j].toNode = edges[k].toNode
                     /\ edges[j].toSocketIndex = edges[k].toSocketIndex))
  /\ [][(/\ call'.op = "create_edge"
         /\ QuadruplePresent(edges, nodes[call'.from].id, call'.fromSocket,
                             nodes[call'.to].id, call'.toSocket))
          => (result' = "None" /\ edges' = edges)]_vars

\* C6 witness: a repeated quadruple was skipped
C6_Witness ==
  /\ call.op = "create_edge"
  /\ result = "None"
  /\ QuadruplePresent(edges, nodes[call.from].id, call.fromSocket,
                      nodes[call.to].id, call.toSocket)

\* C7: in every graph the chain, tree, star and ring builders produce, each
\* output socket sources at most one edge and each input socket receives at
\* most one edge.
C7_BuilderSocketsUsedOnce ==
  call.op \in BuilderOps \ {"generate_mesh_topology"} => SocketsUsedOnce

\* C7 witness: a finished star whose hub feeds three spokes
C7_Witness ==
  /\ pc = "done"
  /\ call.op = "generate_star_topology"
  /\ Len(edges) = 3
  /\ \A k \in 1..Len(edges) : edges[k].fromNode = nodes[1].id

\* the output indices of node that source no edge
FreeOutputs(node) ==
  {i \in 0..(node.inputs + node.outputs) :
     /\ IsOutputSocket(node, i)
     /\ ~\E k \in 1..Len(edges) :
          edges[k].fromNode = node.id /\ edges[k].fromSocketIndex = i}

\* the input indices of node that receive no edge
FreeInputs(node) ==
  {i \in 0..(node.inputs + node.outputs) :
     /\ IsInputSocket(node, i)
     /\ ~\E k \in 1..Len(edges) :
          edges[k].toNode = node.id /\ edges[k].toSocketIndex = i}

\* the least element of X, None when X is empty
LowestOrNone(X) == IF X = {} THEN None ELSE CHOOSE x \in X : \A y \in X : x <= y

\* C8: in every store state get_available_output_socket(node) is the lowest
\* output index of the node that sources no edge, None exactly when there is
\* no such index; get_available_input_socket likewise over input indices and
\* edges arriving at the node.
C8_AvailableSocketIsLowestFree ==
  \A n \in 1..Len(nodes) :
    /\ get_available_output_socket(Store, nodes[n]) = LowestOrNone(FreeOutputs(nodes[n]))
    /\ get_available_input_socket(Store, nodes[n]) = LowestOrNone(FreeInputs(nodes[n]))

\* C8 witness: after direct create_edge calls one node has its first output
\* taken and the second free, another has every input taken
C8_Witness ==
  /\ call.op = "create_edge"
  /\ \E n \in 1..Len(nodes) :
       get_available_output_socket(Store, nodes[n]) = nodes[n].inputs + 1
  /\ \E n \in 1..Len(nodes) :
       nodes[n].inputs > 0 /\ get_available_input_socket(Store, nodes[n]) = None

\* the ids within `steps` edge hops, in either direction, of the set `from`
RECURSIVE ReachableWithin(_, _)
ReachableWithin(from, steps) ==
  IF steps = 0 THEN from
  ELSE ReachableWithin(
         from \cup {edges[k].toNode : k \in {j \in 1..Len(edges) : edges[j].fromNode \in from}}
              \cup {edges[k].fromNode : k \in {j \in 1..Len(edges) : edges[j].toNode \in from}},
         steps - 1)

\* every node can be reached from the first node of the list
AllReachableFromFirst ==
  \A n \in 1..Len(nodes) : nodes[n].id \in ReachableWithin({nodes[1].id}, Len(nodes))

\* C9: is_connected is true exactly when every node is reachable from the
\* first node over edges taken in either direction, and true for every store
\* of 0 or 1 nodes whatever its edges.
C9_IsConnectedIsReachability ==
  is_connected(Store) = (Len(nodes) <= 1 \/ AllReachableFromFirst)

\* C9 witness: a store of two or more nodes that is connected although no
\* edge leaves its first node
C9_Witness ==
  /\ Len(nodes) >= 2
  /\ is_connected(Store)
  /\ \A k \in 1..Len(edges) : edges[k].fromNode # nodes[1].id

\* C10: when the mesh builder has run its repair pass the graph is connected
\* or the repair printed a warning; the builder returns, and it fails only on
\* a negative node count, before the repair.
C10_MeshConnectedOrWarned ==
  /\ (call.op = "generate_mesh_topology" /\ pc = "done")
       => (result = "returned" /\ (is_connected(Store) \/ warnings # <<>>))
  /\ (call.op = "generate_mesh_topology" /\ pc = "failed") => call.node_count < 0

\* C10 witness: a finished mesh left disconnected, with its warning
C10_Witness ==
  /\ call.op = "generate_mesh_topology"
  /\ pc = "done"
  /\ ~is_connected(Store)
  /\ warnings # <<>>

\* a step in which ensure_connectivity runs: the direct call, or the repair
\* pass that ends the mesh builder
RepairStep ==
  \/ call'.op = "ensure_connectivity"
  \/ pc = "mesh_wiring" /\ pc' = "done"

\* C11: ensure_connectivity run on a store that is already connected (every
\* node reachable from the first, or at most one node) adds no edge, adds no
\* node and prints no warning.
C11_ConnectedStoreUntouched ==
  [][(RepairStep /\ (Len(nodes) <= 1 \/ AllReachableFromFirst))
       => (nodes' = nodes /\ edges' = edges /\ warnings' = <<>>)]_vars

\* C11 witness: ensure_connectivity has returned on a two-node store whose
\* only edge leaves the second output of its source, so no repair made it,
\* while a free output and a free input were there to be bridged
C11_Witness ==
  /\ call.op = "ensure_connectivity"
  /\ result = "returned"
  /\ warnings = <<>>
  /\ Len(nodes) = 2
  /\ Len(edges) = 1
  /\ edges[1].fromNode = nodes[1].id
  /\ edges[1].toNode = nodes[2].id
  /\ edges[1].fromSocketIndex = nodes[1].inputs + 1
  /\ FreeOutputs(nodes[1]) # {}
  /\ FreeInputs(nodes[2]) # {}

\* the source and the destination of edge k, as (node position, socket index)
EdgeEnds(k) ==
  <<CHOOSE n \in 1..Len(nodes) : nodes[n].id = edges[k].fromNode,
    edges[k].fromSocketIndex,
    CHOOSE n \in 1..Len(nodes) : nodes[n].id = edges[k].toNode,
    edges[k].toSocketIndex>>

\* the (inputs, outputs) pair of the node at position n
ShapeOf(n) == <<nodes[n].inputs, nodes[n].outputs>>

\* C12: generate_chain_topology(n), n >= 2, returns and leaves exactly n nodes
\* (the first 0 in / 1 out, the last 1 in / 0 out, the others 1 in / 1 out) and
\* n - 1 edges, edge i running from the one output of node i (index = that
\* node's inputs) to input 0 of node i + 1; the graph is connected; for n = 3,
\* and for generate_simple_chain, the edges are (n0,0)->(n1,0), (n1,1)->(n2,0).
C12_ChainShape ==
  /\ (call.op = "generate_chain_topology" /\ pc \in {"done", "failed"}
        /\ call.node_count >= 2)
       => LET n == call.node_count
          IN  /\ pc = "done"
              /\ Len(nodes) = n
              /\ \A i \in 1..n :
                   ShapeOf(i) = <<IF i = 1 THEN 0 ELSE 1, IF i = n THEN 0 ELSE 1>>
              /\ Len(edges) = n - 1
              /\ \A i \in 1..(n - 1) : EdgeEnds(i) = <<i, nodes[i].inputs, i + 1, 0>>
              /\ AllReachableFromFirst
              /\ n = 3 => /\ EdgeEnds(1) = <<1, 0, 2, 0>>
                          /\ EdgeEnds(2) = <<2, 1, 3, 0>>
  /\ call.op = "generate_simple_chain"
       => /\ Len(nodes) = 3
          /\ <<ShapeOf(1), ShapeOf(2), ShapeOf(3)>> = <<<<0, 1>>, <<1, 1>>, <<1, 0>>>>
          /\ Len(edges) = 2
          /\ EdgeEnds(1) = <<1, 0, 2, 0>>
          /\ EdgeEnds(2) = <<2, 1, 3, 0>>

\* C12 witness: a finished chain of four nodes, two of them middle nodes
C12_Witness ==
  /\ call.op = "generate_chain_topology"
  /\ pc = "done"
  /\ call.node_count = 4
  /\ Len(edges) = 3
  /\ ShapeOf(2) = <<1, 1>>
  /\ ShapeOf(3) = <<1, 1>>

\* the edges leaving socket idx of the node at position n
EdgesFrom(n, idx) ==
  {k \in 1..Len(edges) : edges[k].fromNode = nodes[n].id /\ edges[k].fromSocketIndex = idx}

\* the edges arriving at socket idx of the node at position n
EdgesTo(n, idx) ==
  {k \in 1..Len(edges) : edges[k].toNode = nodes[n].id /\ edges[k].toSocketIndex = idx}

\* C13: generate_ring_topology(n), n >= 2, returns and leaves exactly n nodes,
\* each 1 in / 1 out, and n edges, edge i running from output socket 1 of node
\* i to input 0 of node (i + 1) mod n: one directed cycle through all nodes,
\* every socket of the graph carrying exactly one edge.
C13_RingShape ==
  (call.op = "generate_ring_topology" /\ pc \in {"done", "failed"}
     /\ call.node_count >= 2)
    => LET n == call.node_count
       IN  /\ pc = "done"
           /\ Len(nodes) = n
           /\ \A i \in 1..n : ShapeOf(i) = <<1, 1>>
           /\ Len(edges) = n
           /\ \A i \in 0..(n - 1) :
                EdgeEnds(i + 1) = <<i + 1, 1, ((i + 1) % n) + 1, 0>>
           /\ \A i \in 1..n : /\ Cardinality(EdgesFrom(i, 1)) = 1
                                /\ Cardinality(EdgesTo(i, 0)) = 1

\* C13 witness: a finished ring of three nodes whose last edge closes the
\* cycle at the first node
C13_Witness ==
  /\ call.op = "generate_ring_topology"
  /\ pc = "done"
  /\ call.node_count = 3
  /\ Len(edges) = 3
  /\ edges[3].fromNode = nodes[3].id
  /\ edges[3].toNode = nodes[1].id

\* C14: generate_star_topology(n), n >= 2, returns and leaves a hub with 0
\* inputs and n - 1 outputs followed by n - 1 spokes, each 1 in / 0 out, and
\* n - 1 edges, edge i running from hub output socket i to input 0 of spoke i:
\* every edge leaves the hub and every hub output is used exactly once.
C14_StarShape ==
  (call.op = "generate_star_topology" /\ pc \in {"done", "failed"}
     /\ call.node_count >= 2)
    => LET n == call.node_count
       IN  /\ pc = "done"
           /\ Len(nodes) = n
           /\ ShapeOf(1) = <<0, n - 1>>
           /\ \A i \in 2..n : ShapeOf(i) = <<1, 0>>
           /\ Len(edges) = n - 1
           /\ \A i \in 0..(n - 2) : EdgeEnds(i + 1) = <<1, i, i + 2, 0>>
           /\ \A idx \in 0..(nodes[1].inputs + nodes[1].outputs - 1) :
                Cardinality(EdgesFrom(1, idx)) = 1

\* C14 witness: a finished star of four nodes, the third spoke on hub socket 2
C14_Witness ==
  /\ call.op = "generate_star_topology"
  /\ pc = "done"
  /\ call.node_count = 4
  /\ Len(edges) = 3
  /\ edges[3].fromSocketIndex = 2
  /\ edges[3].toNode = nodes[4].id

\* the store a second run of the command line of this run builds, in a process
\* whose entropy is u; for the builders that draw no random number, where the
\* arguments decide everything but the identifiers
SecondRun(u) ==
  CASE call.op = "generate_chain_topology" ->
         generate_chain_topology(EmptyStore(u), call.node_count).store
    [] call.op = "generate_star_topology" ->
         generate_star_topology(EmptyStore(u), call.node_count).store
    [] call.op = "generate_ring_topology" ->
         generate_ring_topology(EmptyStore(u), call.node_count).store

\* C15: two runs with the same topology, the same parameters and the same
\* seed write byte-identical documents, node and edge identifiers included:
\* whatever entropy the second process is handed, its document is the one
\* this run wrote.
C15_SameCommandSameDocument ==
  (exit_status = <<0>> /\ call.op \in {"generate_chain_topology",
                                        "generate_star_topology",
                                        "generate_ring_topology"})
    => \A u \in OsEntropy : document = <<to_xml(SecondRun(u))>>

\* the decimal digits of a natural number
RECURSIVE Decimal(_)
Decimal(n) ==
  LET digit == <<"0", "1", "2", "3", "4", "5", "6", "7", "8", "9">>
  IN  IF n < 10 THEN digit[n + 1] ELSE Decimal(n \div 10) \o digit[(n % 10) + 1]

\* C16: the document a run writes holds exactly one node element per node of
\* the store, then one edge element per edge, each group in creation order
\* and each element carrying the field values of its own node or edge.
C16_DocumentListsStore ==
  exit_status = <<0>>
    => LET elems == document[1].children
       IN  /\ Len(elems) = Len(nodes) + Len(edges)
           /\ \A i \in 1..Len(nodes) :
                /\ elems[i].tag = "node"
                /\ elems[i].attrib.id = nodes[i].id
                /\ elems[i].attrib.type = nodes[i].type
                /\ elems[i].attrib.inputs = Decimal(nodes[i].inputs)
                /\ elems[i].attrib.outputs = Decimal(nodes[i].outputs)
           /\ \A k \in 1..Len(edges) :
                LET e == elems[Len(nodes) + k]
                IN  /\ e.tag = "edge"
                    /\ e.attrib.id = edges[k].id
                    /\ e.attrib.fromNode = edges[k].fromNode
                    /\ e.attrib.toNode = edges[k].toNode
                    /\ e.attrib.fromSocketIndex = Decimal(edges[k].fromSocketIndex)
                    /\ e.attrib.toSocketIndex = Decimal(edges[k].toSocketIndex)

\* C16 witness: a written document of a star, whose hub and spokes differ in
\* both capacities and whose edges differ in their source socket
C16_Witness ==
  /\ exit_status = <<0>>
  /\ call.op = "generate_star_topology"
  /\ Len(nodes) >= 3
  /\ Len(document[1].children) = Len(nodes) + Len(edges)

\* the identifiers the store holds, of nodes and of edges
IdsInUse ==
  {nodes[n].id : n \in 1..Len(nodes)} \cup {edges[k].id : k \in 1..Len(edges)}

\* a create_node step that appended exactly one node, with the tag and the
\* capacities of the call and an identifier the store did not hold
NodeAppended ==
  /\ result' = "Node"
  /\ Len(nodes') = Len(nodes) + 1
  /\ SubSeq(nodes', 1, Len(nodes)) = nodes
  /\ nodes'[Len(nodes')].type = call'.type
  /\ nodes'[Len(nodes')].inputs = call'.inputs
  /\ nodes'[Len(nodes')].outputs = call'.outputs
  /\ nodes'[Len(nodes')].id \notin IdsInUse
  /\ edges' = edges

BelowMinimum ==
  \/ /\ call.op \in {"generate_chain_topology", "generate_tree_topology",
                      "generate_mesh_topology"}
     /\ call.node_count <= 0
  \/ /\ call.op \in {"generate_star_topology", "generate_ring_topology"}
     /\ call.node_count < 2

\* no edge joins a node to itself
NoSelfLoop == \A k \in 1..Len(edges) : edges[k].fromNode # edges[k].toNode

\* C18: a builder handed a node count below its minimum (chain, tree, mesh:
\* count <= 0; star, ring: count < 2) either fails before it creates a node or
\* leaves a graph that is empty or trivial and keeps every edge invariant:
\* valid socket indices, no self-loop, no socket used twice.
C18_SmallCountsHarmless ==
  (call.op \in BuilderOps /\ pc \in {"done", "failed"} /\ BelowMinimum)
    => \/ pc = "failed" /\ nodes = <<>> /\ edges = <<>>
       \/ /\ pc = "done"
          /\ Len(nodes) <= 1
          /\ SocketIndicesValid
          /\ NoSelfLoop
          /\ SocketsUsedOnce

\* C19: a command-line run handed a negative node count ends with a non-zero
\* exit status and writes no output file; a run ends with exit status 0 only
\* after it wrote the graph built from valid parameters.
C19_NegativeCountRejected ==
  (call.op \in BuilderOps /\ exit_status # <<>>)
    => /\ call.node_count < 0 => (exit_status # <<0>> /\ document = <<>>)
       /\ exit_status = <<0>> => (document = <<to_xml(Store)>> /\ call.node_count >= 0)

\* the ids of the nodes joined to the node with this id by edges taken in
\* either direction
ComponentOf(nid) == ReachableWithin({nid}, Len(nodes))

\* the positions of the nodes that no earlier node of the list is joined to:
\* the node at which the search discovers each component
Leaders ==
  {n \in 1..Len(nodes) :
     \A m \in 1..(n - 1) : nodes[m].id \notin ComponentOf(nodes[n].id)}

\* the components of the store as sets of ids, in discovery order
ComponentsInOrder ==
  [j \in 1..Cardinality(Leaders) |->
     ComponentOf(nodes[CHOOSE n \in Leaders :
                         Cardinality({m \in Leaders : m < n}) = j - 1].id)]

\* socket idx of the node with this id is an output that sources no edge of es
FreeOutputIn(es, nid, idx) ==
  /\ IsOutputSocket(NodeOf(nid), idx)
  /\ \A k \in 1..Len(es) : ~(es[k].fromNode = nid /\ es[k].fromSocketIndex = idx)

\* socket idx of the node with this id is an input that receives no edge of es
FreeInputIn(es, nid, idx) ==
  /\ IsInputSocket(NodeOf(nid), idx)
  /\ \A k \in 1..Len(es) : ~(es[k].toNode = nid /\ es[k].toSocketIndex = idx)

\* the socket indices of the node with this id
SocketsOf(nid) == 0..(NodeOf(nid).inputs + NodeOf(nid).outputs - 1)

\* C20: ensure_connectivity run on a disconnected store takes the adjacent
\* pairs (C[i], C[i+1]) of the components in discovery order; for each pair
\* it adds exactly one edge, from a free output of a node of C[i] to a free
\* input of a node of C[i+1], if and only if at that moment some node of C[i]
\* has a free output and some node of C[i+1] has a free input, and otherwise
\* adds nothing and prints a warning for the pair.  It returns without
\* raising, adds no node and adds at most (components - 1) edges.
C20_RepairBridgesAdjacentPairs ==
  [][(RepairStep /\ ~(Len(nodes) <= 1 \/ AllReachableFromFirst))
       => LET comps == ComponentsInOrder
              pairs == 1..(Len(comps) - 1)
              warned == {warnings'[k].at + 1 : k \in 1..Len(warnings')}
              bridged == pairs \ warned
              added(i) == Cardinality({j \in bridged : j < i})
              edgesAt(i) == SubSeq(edges', 1, Len(edges) + added(i))
              CanBridge(i) ==
                /\ \E nid \in comps[i] : \E idx \in SocketsOf(nid) :
                     FreeOutputIn(edgesAt(i), nid, idx)
                /\ \E nid \in comps[i + 1] : \E idx \in SocketsOf(nid) :
                     FreeInputIn(edgesAt(i), nid, idx)
          IN  /\ result' = "returned"
              /\ nodes' = nodes
              /\ warned \subseteq pairs
              /\ Len(warnings') = Cardinality(warned)
              /\ Len(edges') = Len(edges) + Cardinality(bridged)
              /\ SubSeq(edges', 1, Len(edges)) = edges
              /\ Len(edges') - Len(edges) <= Len(comps) - 1
              /\ \A i \in pairs : (i \in bridged) = CanBridge(i)
              /\ \A i \in bridged :
                   LET e == edges'[Len(edges) + added(i) + 1]
                   IN  /\ e.fromNode \in comps[i]
                       /\ e.toNode \in comps[i + 1]
                       /\ FreeOutputIn(edgesAt(i), e.fromNode, e.fromSocketIndex)
                       /\ FreeInputIn(edgesAt(i), e.toNode, e.toSocketIndex)]_vars

\* C20 witness: a mesh whose wiring loop never ran, so that its three nodes
\* were three components and the repair added both of its edges
C20_Witness ==
  /\ call.op = "generate_mesh_topology"
  /\ pc = "done"
  /\ attempts = 0
  /\ Len(nodes) = 3
  /\ Len(edges) = 2
  /\ warnings = <<>>

\* C21: every graph a builder of TopologyGenerator returns is connected, and
\* ensure_connectivity leaves the graph connected whenever it returns.
C21_BuildersReturnConnected ==
  (\/ call.op \in BuilderOps /\ pc = "done"
   \/ call.op = "ensure_connectivity")
    => (Len(nodes) <= 1 \/ AllReachableFromFirst)

\* the ids within `steps` hops of the set `from` over the edges es, taken in
\* either direction
RECURSIVE ReachableIn(_, _, _)
ReachableIn(es, from, steps) ==
  IF steps = 0 THEN from
  ELSE ReachableIn(es,
         from \cup {es[k].toNode : k \in {j \in 1..Len(es) : es[j].fromNode \in from}}
              \cup {es[k].fromNode : k \in {j \in 1..Len(es) : es[j].toNode \in from}},
         steps - 1)

\* every edge a step of the mesh builder appends leaves an output and enters
\* an input that carried no edge before it; an edge the repair pass appends
\* joins nodes that no path joined before it
MeshStepUsesFreeSockets ==
  pc = "mesh_wiring"
    => \A k \in (Len(edges) + 1)..Len(edges') :
         LET e == edges'[k]
             before == SubSeq(edges', 1, k - 1)
         IN  /\ FreeOutputIn(before, e.fromNode, e.fromSocketIndex)
             /\ FreeInputIn(before, e.toNode, e.toSocketIndex)
             /\ pc' = "done"
                  => e.toNode \notin ReachableIn(before, {e.fromNode}, Len(nodes))

\* C22: in every graph of the mesh builder, repair edges included, each
\* output socket sources at most one edge and each input socket receives at
\* most one: neither the wiring loop nor a bridging edge uses a socket that
\* carries an edge already, and a bridging edge joins two different
\* components.
C22_MeshSocketsUsedOnce ==
  /\ [](call.op = "generate_mesh_topology" => SocketsUsedOnce)
  /\ [][MeshStepUsesFreeSockets]_vars

\* C22 witness: a finished mesh whose wiring loop reached its target and
\* whose repair pass then added an edge
C22_Witness ==
  /\ call.op = "generate_mesh_topology"
  /\ pc = "done"
  /\ target_edges >= 1
  /\ attempts < target_edges * 10
  /\ Len(edges) > target_edges

\* the edges arriving at the node at position n
IncomingEdges(n) == {k \in 1..Len(edges) : edges[k].toNode = nodes[n].id}

\* the position of the node that sources the one edge arriving at node n
ParentOf(n) ==
  CHOOSE p \in 1..Len(nodes) : \E k \in IncomingEdges(n) : edges[k].fromNode = nodes[p].id

\* C23: in every graph of the tree builder for node count >= 1 the first node
\* is the root, 0 in / max_children out, with no incoming edge; every other
\* node has 1 input and exactly one incoming edge, which arrives at input 0
\* from output socket parent.inputs + i of a node created earlier, the node
\* being that parent's i-th child; so there are (nodes - 1) edges and the
\* graph is connected and acyclic.
C23_TreeShape ==
  (call.op = "generate_tree_topology" /\ pc = "done" /\ call.node_count >= 1)
    => /\ Len(nodes) >= 1
       /\ ShapeOf(1) = <<0, call.max_children>>
       /\ IncomingEdges(1) = {}
       /\ \A n \in 2..Len(nodes) :
            /\ nodes[n].inputs = 1
            /\ Cardinality(IncomingEdges(n)) = 1
            /\ \A k \in IncomingEdges(n) :
                 LET p == ParentOf(n)
                     i == Cardinality({m \in 2..(n - 1) : ParentOf(m) = p})
                 IN  /\ p < n
                     /\ edges[k].toSocketIndex = 0
                     /\ edges[k].fromSocketIndex = nodes[p].inputs + i
       /\ Len(edges) = Len(nodes) - 1
       /\ AllReachableFromFirst

\* C23 witness: a finished tree of four nodes in which a child of the root
\* has a child of its own and the root has a second child
C23_Witness ==
  /\ call.op = "generate_tree_topology"
  /\ pc = "done"
  /\ Len(nodes) = 4
  /\ \E k \in 1..Len(edges) : edges[k].fromNode # nodes[1].id
  /\ \E k \in 1..Len(edges) :
       edges[k].fromNode = nodes[1].id /\ edges[k].fromSocketIndex = 1

\* the edges leaving the node at position n
OutgoingEdges(n) == {k \in 1..Len(edges) : edges[k].fromNode = nodes[n].id}

\* C24: whatever the node count, max_children and the random leaf decisions,
\* the tree builder never wires more children to a parent than the outputs
\* the parent was created with: create_edge never raises, "Tree connection
\* error" is never printed and no child is left without its incoming edge.
C24_TreeNeverOverflowsParent ==
  (call.op = "generate_tree_topology" /\ pc \in {"done", "failed"})
    => /\ pc = "done"
       /\ warnings = <<>>
       /\ \A n \in 1..Len(nodes) : Cardinality(OutgoingEdges(n)) <= nodes[n].outputs
       /\ \A n \in 2..Len(nodes) : IncomingEdges(n) # {}
       /\ SocketIndicesValid

\* C24 witness: a finished tree in which a node below the root has children
\* on every output it was created with
C24_Witness ==
  /\ call.op = "generate_tree_topology"
  /\ pc = "done"
  /\ warnings = <<>>
  /\ \E n \in 2..Len(nodes) :
       nodes[n].outputs >= 1 /\ Cardinality(OutgoingEdges(n)) = nodes[n].outputs

\* C25: the tree builder called with node count n >= 1 and max_children >= 1
\* creates exactly n nodes, whatever the random leaf decisions.
C25_TreeCreatesAllNodes ==
  (call.op = "generate_tree_topology" /\ pc = "done"
     /\ call.node_count >= 1 /\ call.max_children >= 1)
    => Len(nodes) = call.node_count

\* what a step of the mesh builder does to the loop counters
MeshLoopStep ==
  /\ (pc = "idle" /\ pc' = "mesh_wiring")
       => /\ attempts' = 0
          /\ edges' = <<>>
          /\ target_edges' =
               (call'.density * ((call'.node_count * (call'.node_count - 1)) \div 2)) \div 10
  /\ (pc = "mesh_wiring" /\ pc' = "mesh_wiring")
       => /\ attempts' = attempts + 1
          /\ attempts' <= 10 * target_edges
          /\ Len(edges') \in {Len(edges), Len(edges) + 1}
          /\ Len(edges') <= target_edges
          /\ target_edges' = target_edges
  /\ (pc = "mesh_wiring" /\ pc' = "done")
       => /\ Len(edges) >= target_edges \/ attempts >= 10 * target_edges
          /\ Len(edges) <= target_edges
          /\ attempts <= 10 * target_edges
          /\ result' = "returned"

\* C26: for node count >= 0 and density in [0, 1] the wiring loop of the mesh
\* builder ends after at most 10 x target iterations, target being
\* floor(density * n(n-1)/2), every iteration counting as one attempt whether
\* or not it adds an edge; when the loop ends the edge count is at most
\* target; and the builder, repair pass included, terminates: the loop
\* condition becomes false, and the step that follows is the repair pass
\* returning.
C26_MeshLoopBounded ==
  /\ [][MeshLoopStep]_vars
  /\ (pc = "mesh_wiring") ~> (pc = "done" \/ ~MeshLoopCondition)

\* C26 witness: a finished mesh whose wiring loop used up all of its
\* 10 x target attempts without reaching the target
C26_Witness ==
  /\ call.op = "generate_mesh_topology"
  /\ pc = "done"
  /\ target_edges >= 1
  /\ attempts = 10 * target_edges

\* the list before is the beginning of the list after
IsPrefix(before, after) ==
  Len(before) <= Len(after) /\ SubSeq(after, 1, Len(before)) = before

\* C27: no operation of the store, of a builder, of the connectivity repair
\* or of the serializer removes or changes a node or an edge: after every
\* step the node list and the edge list it found are prefixes of the ones it
\* leaves, so the capacities of a node never change after its creation.
C27_AppendOnly ==
  [][IsPrefix(nodes, nodes') /\ IsPrefix(edges, edges')]_vars

\* C27 witness: a mesh that went through wiring iterations, the repair pass
\* and the serializer, and holds two or more edges
C27_Witness ==
  /\ call.op = "generate_mesh_topology"
  /\ exit_status = <<0>>
  /\ attempts > 0
  /\ Len(edges) >= 2
  /\ Len(document[1].children) = Len(nodes) + Len(edges)

\* C28: every edge build_pipeline (stages >= 0) and build_split_merge build
\* leaves an output index of its source node, in [inputs, inputs + outputs),
\* and enters an input index of its destination node, in [0, inputs).
C28_PatternSocketIndicesValid ==
  call.op \in {"build_pipeline", "build_split_merge"} => SocketIndicesValid

\* C29: build_pipeline(stages), stages >= 0, returns exactly stages + 2 nodes
\* (SOURCE, stages TRANSFORM, SINK, in that order) and stages + 1 edges, edge
\* i joining node i to node i + 1: one path from SOURCE to SINK; for
\* stages < 0 it fails before any node or edge is created.
C29_PipelineShape ==
  call.op = "build_pipeline"
    => IF call.stages >= 0
         THEN /\ pc = "built"
              /\ Len(nodes) = call.stages + 2
              /\ \A n \in 1..Len(nodes) :
                   nodes[n].type = IF n = 1 THEN "SOURCE"
                                   ELSE IF n = Len(nodes) THEN "SINK"
                                   ELSE "TRANSFORM"
              /\ Len(edges) = call.stages + 1
              /\ \A i \in 1..Len(edges) :
                   /\ edges[i].fromNode = nodes[i].id
                   /\ edges[i].toNode = nodes[i + 1].id
         ELSE /\ pc = "failed"
              /\ result = "ValueError"
              /\ nodes = <<>>
              /\ edges = <<>>

\* C29 witness: a pipeline of two stages, four nodes and three edges
C29_Witness ==
  /\ call.op = "build_pipeline"
  /\ call.stages = 2
  /\ pc = "built"
  /\ Len(nodes) = 4
  /\ Len(edges) = 3

\* C30: every integer seed given on the command line, 0 included, is applied
\* to the random stream before generation, so that a second run with the
\* same topology, parameters and seed builds the same capacities, type tags
\* and wiring (identifiers aside: the second run is given this run's
\* entropy).
C30_SeedAppliedAndReproducible ==
  (call.op = "generate_tree_topology" /\ pc = "done" /\ call.seed # <<>>)
    => /\ random_seeded(call.seed)
       /\ \A leaf \in TreeLeafDraws(call.seed, call.node_count) :
            LET again == generate_tree_topology(EmptyStore(urandom), call.node_count,
                                                call.max_children, leaf).store
            IN  again.nodes = nodes /\ again.edges = edges

====
